---------------------------- MODULE Spec2Model ----------------------------
(***************************************************************************)
(* Model of src/app.py: the NTU Sports membership and bookings             *)
(* reconciliation tool.                                                    *)
(*                                                                         *)
(* Conventions of the model                                                *)
(*   - a name is a sequence of character codes: 0 is the space, 1..26 are  *)
(*     'a'..'z', 27..52 are 'A'..'Z' (so the order of the codes of the     *)
(*     characters that survive normalize_name, space < 'a' < ... < 'z',    *)
(*     is the order Python compares them in);                              *)
(*   - a missing cell (pandas NaN) is NaN for a name and NaNId for a       *)
(*     StudentID;                                                          *)
(*   - money of the membership side is in whole pounds; money of the       *)
(*     bookings side is in pence (fixed point, two decimals);              *)
(*   - a DataFrame is the sequence of its rows, a row is a record, and the *)
(*     index label of a row (a RangeIndex after read_csv) is its position; *)
(*   - the columns Team and BookingStart are carried by no computation of  *)
(*     the program and are left out; PaymentDate is an opaque cell.        *)
(***************************************************************************)
EXTENDS Integers, Sequences, FiniteSets, TLC

VARIABLES
    members_df,              \* roster table, with its NormalizedName column
    payments_df,             \* payments table, with its NormalizedName column
    selected_players,        \* working copy of the selected members
    matched_payment_indices, \* index labels of the payments credited so far
    fuzzy_suggestions,       \* list of EnteredName / SuggestedName pairs
    resolved_payments,       \* one dict per payment, with its MatchType
    payment_matched,         \* the third loop's local flag, per payment index
    paid_not_selected,       \* returned list
    unmatched_payments,      \* returned list
    pc,                      \* position of the run
    i,                       \* index of the row the current loop is at
    external_df,             \* bookings table as the caller holds it
    external_all,            \* annotated bookings returned by the validator
    external_issues,         \* issue subset returned by the validator
    defect,                  \* what is wrong with the uploaded files
    now,                     \* the wall clock read by datetime.now()
    session_state,           \* st.session_state
    first_run,               \* the results the first completed run stored
    runs,                    \* completed runs
    progress,                \* reconciliation steps the current run completed
    uploaded                 \* the three uploaded files, as read_csv reads them

vars == <<members_df, payments_df, selected_players, matched_payment_indices,
          fuzzy_suggestions, resolved_payments, payment_matched,
          paid_not_selected, unmatched_payments, pc, i, external_df,
          external_all, external_issues, defect, now, session_state,
          first_run, runs, progress, uploaded>>

---------------------------------------------------------------------------
(* Program constants (src/app.py lines 9-11, 174).                         *)

ANNUAL_FEE == 120

HOURLY_RATE == 5

\* FUZZY_CUTOFF = 0.86, in hundredths
FUZZY_CUTOFF == 86

\* the 0.01 of line 174, in pence
TOLERANCE == 1

---------------------------------------------------------------------------
(* Bounds of the model.                                                    *)

MaxMembers == 2

MaxPayments == 2

MaxBookings == 2

MaxRunRows == 1

MaxRuns == 2

---------------------------------------------------------------------------
(* Cells.                                                                  *)

NaN == << -1 >>

NaNId == "NaN"

\* pd.isna on a name cell
isna(x) == x = NaN

\* pd.isna on a StudentID cell
isna_id(x) == x = NaNId

\* "Jon Tan"
JonTan == <<36, 15, 14, 0, 46, 1, 14>>

\* " JON  TAN": normalizes to "jon tan"
JonTanLoud == <<0, 36, 41, 40, 0, 0, 46, 27, 40>>

\* "John Tann": normalizes to "john tann", ratio 0.875 with "jon tan"
JohnTann == <<36, 15, 8, 14, 0, 46, 1, 14, 14>>

\* "jon tam": ratio 6/7 = 0.857 with "jon tan", just under the cutoff
JonTam == <<10, 15, 14, 0, 20, 1, 13>>

\* "  ": a whitespace-only name, which read_csv keeps as a string
Blank == <<0, 0>>

---------------------------------------------------------------------------
(* normalize_name (lines 31-35).                                           *)

Max(a, b) == IF a >= b THEN a ELSE b

\* str.lower on one character
Lower(c) == IF c > 26 THEN c - 26 ELSE c

\* str.lower
LowerStr(s) == [k \in 1..Len(s) |-> Lower(s[k])]

\* str.strip: drop the leading and the trailing whitespace
Strip(s) ==
    LET keep == {k \in 1..Len(s) : s[k] # 0}
    IN  IF keep = {} THEN <<>>
        ELSE LET lo == CHOOSE k \in keep : \A m \in keep : k <= m
                 hi == CHOOSE k \in keep : \A m \in keep : k >= m
             IN  SubSeq(s, lo, hi)

RECURSIVE ReplaceDoubleSpace(_)
\* str.replace("  ", " "): left to right, non-overlapping occurrences
ReplaceDoubleSpace(s) ==
    IF Len(s) < 2 THEN s
    ELSE IF s[1] = 0 /\ s[2] = 0
         THEN <<0>> \o ReplaceDoubleSpace(SubSeq(s, 3, Len(s)))
         ELSE <<s[1]>> \o ReplaceDoubleSpace(Tail(s))

normalize_name(name) ==
    IF isna(name) THEN <<>>
    ELSE ReplaceDoubleSpace(Strip(LowerStr(name)))

---------------------------------------------------------------------------
(* difflib.SequenceMatcher.ratio and difflib.get_close_matches, which      *)
(* lines 101-106 call.  No element is junk: the names are shorter than the *)
(* 200 elements at which autojunk starts.                                  *)

RECURSIVE CommonPrefix(_, _, _, _, _, _)
\* length of the longest common prefix of a[p..ahi] and b[q..bhi]
CommonPrefix(a, b, p, q, ahi, bhi) ==
    IF p > ahi \/ q > bhi \/ a[p] # b[q] THEN 0
    ELSE 1 + CommonPrefix(a, b, p + 1, q + 1, ahi, bhi)

\* find_longest_match on a[alo..ahi], b[blo..bhi] (inclusive, 1-based):
\* the longest block, of those the one starting earliest in a, and of
\* those the one starting earliest in b.  <<p, q, k>>, k = 0 for none.
find_longest_match(a, b, alo, ahi, blo, bhi) ==
    LET cand == {<<p, q, CommonPrefix(a, b, p, q, ahi, bhi)>> :
                     p \in alo..ahi, q \in blo..bhi}
        pos  == {c \in cand : c[3] > 0}
    IN  IF pos = {} THEN <<alo, blo, 0>>
        ELSE CHOOSE c \in pos :
                \A d \in pos :
                    \/ c[3] > d[3]
                    \/ c[3] = d[3] /\ c[1] < d[1]
                    \/ c[3] = d[3] /\ c[1] = d[1] /\ c[2] <= d[2]

RECURSIVE matching_size(_, _, _, _, _, _)
\* the sum of the sizes of get_matching_blocks
matching_size(a, b, alo, ahi, blo, bhi) ==
    IF alo > ahi \/ blo > bhi THEN 0
    ELSE LET m == find_longest_match(a, b, alo, ahi, blo, bhi)
         IN  IF m[3] = 0 THEN 0
             ELSE m[3]
                  + matching_size(a, b, alo, m[1] - 1, blo, m[2] - 1)
                  + matching_size(a, b, m[1] + m[3], ahi, m[2] + m[3], bhi)

\* ratio() = 2.0 * M / T as the fraction <<2M, T>>; 1.0 when T = 0
ratio(a, b) ==
    IF Len(a) + Len(b) = 0 THEN <<1, 1>>
    ELSE <<2 * matching_size(a, b, 1, Len(a), 1, Len(b)), Len(a) + Len(b)>>

\* r >= cutoff / 100
AtLeastCutoff(r) == 100 * r[1] >= FUZZY_CUTOFF * r[2]

\* fractions compared, denominators positive
RatioLess(r, s) == r[1] * s[2] < s[1] * r[2]

RECURSIVE StrLess(_, _)
\* Python's < on strings
StrLess(s, t) ==
    IF Len(t) = 0 THEN FALSE
    ELSE IF Len(s) = 0 THEN TRUE
    ELSE IF s[1] # t[1] THEN s[1] < t[1]
    ELSE StrLess(Tail(s), Tail(t))

\* get_close_matches(word, possibilities, n=1, cutoff): the candidates x
\* with ratio(x, word) >= cutoff (real_quick_ratio and quick_ratio are
\* upper bounds of ratio and reject nothing more), and of those the
\* greatest (score, x) pair, which heapq.nlargest(1, ...) returns.
\* The set holds the one match, or nothing.
get_close_matches(word, possibilities) ==
    LET cands == {possibilities[k] : k \in 1..Len(possibilities)}
        score == [x \in cands |-> ratio(x, word)]
        good  == {x \in cands : AtLeastCutoff(score[x])}
    IN  {x \in good :
            \A y \in good :
                \/ y = x
                \/ RatioLess(score[y], score[x])
                \/ ~RatioLess(score[x], score[y]) /\ StrLess(y, x)}

---------------------------------------------------------------------------
(* The tables process_data hands to the reconciliation (lines 37-51):      *)
(* read_csv's rows with the NormalizedName column of lines 45-47.          *)

MemberRow(id, name, sel) ==
    [StudentID |-> id, FullName |-> name, IsSelectedOfficialTeam |-> sel,
     NormalizedName |-> normalize_name(name)]

PaymentRow(id, name, amount) ==
    [StudentID |-> id, FullName |-> name, Amount |-> amount,
     NormalizedName |-> normalize_name(name)]

\* The rows of the rosters: two identifiers, a named and a nameless member,
\* selected or not.
MemberRows ==
    {MemberRow(id, r[1], r[2]) :
        id \in {"S1", "S2"},
        r \in {<<JonTan, "Yes">>, <<NaN, "Yes">>, <<JonTan, "No">>}}

\* The rows of the payments: no identifier or the identifier S1; a name that
\* normalizes to a roster name, one close to it, a blank one, a missing one.
\* No computation relates a payment's name to its amount, and the amounts
\* go with the names to keep the tables few: 40 + 80 is the fee exactly,
\* 80 + 80 is over it.
PaymentRows ==
    {PaymentRow(id, r[1], r[2]) :
        id \in {NaNId, "S1"},
        r \in {<<JonTanLoud, 40>>, <<JohnTann, 80>>, <<Blank, 80>>, <<NaN, 40>>}}

\* the tables of at most n rows
Tables(rows, n) == UNION {[1..k -> rows] : k \in 0..n}

---------------------------------------------------------------------------
(* reconcile_memberships (lines 53-168).                                   *)

\* lines 56-62: the working copy of the selected rows.  PaymentDate 0 is
\* None; the PaymentDate of the payment with index label k is the cell k.
init_selected(members) ==
    LET sel == SelectSeq(members, LAMBDA r : r.IsSelectedOfficialTeam = "Yes")
    IN  [m \in 1..Len(sel) |->
            [StudentID |-> sel[m].StudentID, FullName |-> sel[m].FullName,
             NormalizedName |-> sel[m].NormalizedName,
             PaidAmount |-> 0, PaidStatus |-> "Unpaid",
             Outstanding |-> ANNUAL_FEE, PaymentDate |-> 0]]

\* lines 64-67
init_run(members) ==
    [selected_players |-> init_selected(members),
     matched_payment_indices |-> {},
     fuzzy_suggestions |-> <<>>,
     resolved_payments |-> <<>>]

\* a credit without the floor of lines 81 and 114
credit_without_floor(sel, m, amount, date) ==
    [sel EXCEPT ![m].PaidAmount = @ + amount,
                ![m].Outstanding = ANNUAL_FEE - (sel[m].PaidAmount + amount),
                ![m].PaymentDate = date]

\* lines 80-82 and 113-115: the credit of a payment to the row m
credit(sel, m, amount, date) ==
    [sel EXCEPT ![m].PaidAmount = @ + amount,
                ![m].Outstanding = Max(0, ANNUAL_FEE - (sel[m].PaidAmount + amount)),
                ![m].PaymentDate = date]

\* match.index[0]: the first row of a non-empty selection
first_index(hits) == CHOOSE m \in hits : \A n \in hits : m <= n

\* lines 71-73: payment.to_dict() with the two resolution fields
resolved_dict(payment) ==
    [StudentID |-> payment.StudentID, FullName |-> payment.FullName,
     Amount |-> payment.Amount, NormalizedName |-> payment.NormalizedName,
     ResolvedStudentID |-> "None", MatchType |-> "Unmatched"]

\* lines 70-87: the first loop's body for the payment with index label k
id_pass_step(st, payment, k) ==
    LET sel  == st.selected_players
        hits == IF isna_id(payment.StudentID) THEN {}
                ELSE {m \in 1..Len(sel) : sel[m].StudentID = payment.StudentID}
        rp   == resolved_dict(payment)
    IN  IF hits = {}
        THEN [st EXCEPT !.resolved_payments = Append(@, rp)]
        ELSE LET m == first_index(hits)
             IN  [selected_players |-> credit(sel, m, payment.Amount, k),
                  matched_payment_indices |-> st.matched_payment_indices \cup {k},
                  fuzzy_suggestions |-> st.fuzzy_suggestions,
                  resolved_payments |->
                      Append(st.resolved_payments,
                             [rp EXCEPT !.ResolvedStudentID = sel[m].StudentID,
                                        !.MatchType = "StudentID"])]

\* a name pass that never skips: the payments of the identifier pass are
\* considered again
never_skipped(k, matched) == FALSE

\* lines 93-94: the payments matched so far are skipped
already_matched(k, matched) == k \in matched

\* a marking that forgets the name: every open entry becomes FuzzyName
is_open_entry(rp, name) == rp.MatchType = "Unmatched"

\* line 120: the entries of resolved_payments the match is recorded on
is_open_entry_of(rp, name) ==
    rp.NormalizedName = name /\ rp.MatchType = "Unmatched"

\* lines 92-129: the second loop's body for the payment with index label k
name_pass_step(st, payment, k) ==
    LET sel  == st.selected_players
        name == normalize_name(payment.FullName)
        all_selected_names == [m \in 1..Len(sel) |-> sel[m].NormalizedName]
    IN  IF already_matched(k, st.matched_payment_indices) THEN st
        ELSE IF name = <<>> THEN st
        ELSE LET matches == get_close_matches(name, all_selected_names)
             IN  IF matches = {} THEN st
                 ELSE LET matched_name == CHOOSE x \in matches : TRUE
                          hits == {m \in 1..Len(sel) :
                                       sel[m].NormalizedName = matched_name}
                          m    == first_index(hits)
                          rps  == st.resolved_payments
                      IN  IF hits = {} THEN st
                          ELSE [selected_players |->
                                    credit(sel, m, payment.Amount, k),
                                matched_payment_indices |->
                                    st.matched_payment_indices \cup {k},
                                resolved_payments |->
                                    [n \in 1..Len(rps) |->
                                        IF is_open_entry_of(rps[n], name)
                                        THEN [rps[n] EXCEPT
                                                 !.ResolvedStudentID = sel[m].StudentID,
                                                 !.MatchType = "FuzzyName"]
                                        ELSE rps[n]],
                                fuzzy_suggestions |->
                                    IF name # matched_name
                                    THEN Append(st.fuzzy_suggestions,
                                                [EnteredName |-> payment.FullName,
                                                 SuggestedName |-> sel[m].FullName])
                                    ELSE st.fuzzy_suggestions]

\* a classification whose first test is strict
paid_status_strict(paid) ==
    IF paid > ANNUAL_FEE THEN "Paid"
    ELSE IF paid > 0 THEN "Underpaid"
    ELSE "Unpaid"

\* lines 133-138
paid_status(paid) ==
    IF paid >= ANNUAL_FEE THEN "Paid"
    ELSE IF paid > 0 THEN "Underpaid"
    ELSE "Unpaid"

\* lines 132-138
update_status(sel) ==
    [m \in 1..Len(sel) |->
        [sel[m] EXCEPT !.PaidStatus = paid_status(sel[m].PaidAmount)]]

\* lines 149-157: the flag payment_matched of the third loop
payment_is_matched(members, payment) ==
    LET all_member_ids == {members[m].StudentID : m \in 1..Len(members)}
        names == {members[m].NormalizedName : m \in 1..Len(members)}
        by_id == /\ ~isna_id(payment.StudentID)
                 /\ payment.StudentID \in all_member_ids
    IN  \/ by_id
        \/ /\ ~isna(payment.FullName)
           /\ normalize_name(payment.FullName) \in names

\* lines 144-157, per index label: "continue" where line 146 skips the row
payment_flags(members, payments, matched) ==
    [k \in 1..Len(payments) |->
        IF k \in matched THEN "continue"
        ELSE IF payment_is_matched(members, payments[k]) THEN "True"
        ELSE "False"]

RECURSIVE rows_where(_, _, _)
\* the rows of a table whose index label is in keep, in table order
rows_where(table, keep, k) ==
    IF k > Len(table) THEN <<>>
    ELSE (IF k \in keep THEN <<table[k]>> ELSE <<>>)
         \o rows_where(table, keep, k + 1)

\* lines 142-160: line 159 appends the rows whose flag is False
collect_paid_not_selected(payments, flags) ==
    rows_where(payments, {k \in 1..Len(payments) : flags[k] = "False"}, 1)

\* lines 163-166
collect_unmatched(rps) ==
    SelectSeq(rps, LAMBDA rp : rp.MatchType = "Unmatched")

RECURSIVE run_passes(_, _, _, _)
\* the loop of line 70 (first = TRUE) from the row k on, and then the loop
\* of line 92 (first = FALSE)
run_passes(st, payments, k, first) ==
    IF k > Len(payments)
    THEN IF first THEN run_passes(st, payments, 1, FALSE) ELSE st
    ELSE run_passes(IF first THEN id_pass_step(st, payments[k], k)
                    ELSE name_pass_step(st, payments[k], k),
                    payments, k + 1, first)

\* lines 131-168 on the locals the two loops leave: the five values
\* reconcile_memberships returns
finish(st, members, payments) ==
    LET flags == payment_flags(members, payments, st.matched_payment_indices)
    IN  [selected_players |-> update_status(st.selected_players),
         fuzzy_suggestions |-> st.fuzzy_suggestions,
         paid_not_selected |-> collect_paid_not_selected(payments, flags),
         unmatched_payments |-> collect_unmatched(st.resolved_payments),
         resolved_payments |-> st.resolved_payments]

reconcile_memberships(members, payments) ==
    finish(run_passes(init_run(members), payments, 1, TRUE), members, payments)

---------------------------------------------------------------------------
(* Specification Spec: one call of reconcile_memberships, a loop iteration *)
(* at a time, on every roster and payments table within the bounds.        *)

recon_vars == <<selected_players, matched_payment_indices, fuzzy_suggestions,
                resolved_payments>>

out_vars == <<payment_matched, paid_not_selected, unmatched_payments>>

ext_vars == <<external_df, external_all, external_issues>>

run_vars == <<defect, now, session_state, first_run, runs, progress, uploaded>>

\* the values the variables of the other specifications rest at
ExtIdle ==
    /\ external_df = <<>>
    /\ external_all = <<>>
    /\ external_issues = <<>>

RunIdle ==
    /\ defect = "none"
    /\ now = 0
    /\ session_state = [results_generated |-> FALSE]
    /\ first_run = [results_generated |-> FALSE]
    /\ runs = 0
    /\ progress = 0
    /\ uploaded = <<>>

ReconIdle ==
    /\ selected_players = <<>>
    /\ matched_payment_indices = {}
    /\ fuzzy_suggestions = <<>>
    /\ resolved_payments = <<>>
    /\ payment_matched = <<>>
    /\ paid_not_selected = <<>>
    /\ unmatched_payments = <<>>
    /\ i = 1

\* the locals of the run as one record
Cur ==
    [selected_players |-> selected_players,
     matched_payment_indices |-> matched_payment_indices,
     fuzzy_suggestions |-> fuzzy_suggestions,
     resolved_payments |-> resolved_payments]

SetCur(st) ==
    /\ selected_players' = st.selected_players
    /\ matched_payment_indices' = st.matched_payment_indices
    /\ fuzzy_suggestions' = st.fuzzy_suggestions
    /\ resolved_payments' = st.resolved_payments

\* the call, after lines 56-67
Init ==
    /\ members_df \in Tables(MemberRows, MaxMembers)
    /\ payments_df \in Tables(PaymentRows, MaxPayments)
    /\ selected_players = init_selected(members_df)
    /\ matched_payment_indices = {}
    /\ fuzzy_suggestions = <<>>
    /\ resolved_payments = <<>>
    /\ payment_matched = <<>>
    /\ paid_not_selected = <<>>
    /\ unmatched_payments = <<>>
    /\ pc = "id"
    /\ i = 1
    /\ ExtIdle
    /\ RunIdle

\* one iteration of the loop of line 70
IdPass ==
    /\ pc = "id"
    /\ i <= Len(payments_df)
    /\ SetCur(id_pass_step(Cur, payments_df[i], i))
    /\ i' = i + 1
    /\ UNCHANGED <<members_df, payments_df, pc, out_vars, ext_vars, run_vars>>

\* the loop of line 70 is over: line 90
StartNamePass ==
    /\ pc = "id"
    /\ i > Len(payments_df)
    /\ pc' = "fuzzy"
    /\ i' = 1
    /\ UNCHANGED <<members_df, payments_df, recon_vars, out_vars, ext_vars,
                   run_vars>>

\* one iteration of the loop of line 92
NamePass ==
    /\ pc = "fuzzy"
    /\ i <= Len(payments_df)
    /\ SetCur(name_pass_step(Cur, payments_df[i], i))
    /\ i' = i + 1
    /\ UNCHANGED <<members_df, payments_df, pc, out_vars, ext_vars, run_vars>>

\* lines 131-168: the statuses, the third loop, the unmatched list, return
Finish ==
    /\ pc = "fuzzy"
    /\ i > Len(payments_df)
    /\ selected_players' = update_status(selected_players)
    /\ payment_matched' =
           payment_flags(members_df, payments_df, matched_payment_indices)
    /\ paid_not_selected' =
           collect_paid_not_selected(payments_df, payment_matched')
    /\ unmatched_payments' = collect_unmatched(resolved_payments)
    /\ pc' = "done"
    /\ UNCHANGED <<members_df, payments_df, matched_payment_indices,
                   fuzzy_suggestions, resolved_payments, i, ext_vars, run_vars>>

Next == IdPass \/ StartNamePass \/ NamePass \/ Finish

Spec == Init /\ [][Next]_vars

---------------------------------------------------------------------------
(* validate_external_bookings (lines 170-183).  AmountPaid and Expected    *)
(* are in pence, Hours in whole hours.                                     *)

Pence(pounds) == 100 * pounds

BookingRow(id, name, hours, paid) ==
    [BookingID |-> id, FullName |-> name, Hours |-> hours, AmountPaid |-> paid,
     NormalizedName |-> normalize_name(name)]

BookingRows ==
    {BookingRow(id, JonTan, hours, paid) :
        id \in {"B1", "B2"}, hours \in {0, 3},
        paid \in {0 - 500, 0, 1000, 1499, 1500}}

\* line 173
expected_charge(hours) == hours * Pence(HOURLY_RATE)

\* a comparison without the tolerance
is_underpaid_exact(paid, expected) == paid < expected

\* line 174
is_underpaid(paid, expected) == paid < expected - TOLERANCE

\* line 175
is_missing_payment(paid) == paid <= 0

\* lines 173-175 on one row
annotate(row) ==
    [BookingID |-> row.BookingID, FullName |-> row.FullName,
     Hours |-> row.Hours, AmountPaid |-> row.AmountPaid,
     NormalizedName |-> row.NormalizedName,
     Expected |-> expected_charge(row.Hours),
     Underpaid |-> is_underpaid(row.AmountPaid, expected_charge(row.Hours)),
     MissingPayment |-> is_missing_payment(row.AmountPaid)]

\* a validator that adds its columns to the frame it was passed
caller_frame_annotated(df) == [k \in 1..Len(df) |-> annotate(df[k])]

\* line 172: the columns are added to a copy, so the frame the caller
\* passed is, after the call, the frame it passed
caller_frame_after_validate(df) == df

\* the two values validate_external_bookings returns (line 183)
validate_external_bookings(df) ==
    LET all == [k \in 1..Len(df) |-> annotate(df[k])]
    IN  [external_df |-> all,
         external_issues |->
             SelectSeq(all, LAMBDA r : r.Underpaid \/ r.MissingPayment)]

---------------------------------------------------------------------------
(* Specification SpecExt: one call of validate_external_bookings on every  *)
(* bookings table within the bounds.                                       *)

InitExt ==
    /\ members_df = <<>>
    /\ payments_df = <<>>
    /\ ReconIdle
    /\ RunIdle
    /\ external_df \in Tables(BookingRows, MaxBookings)
    /\ external_all = <<>>
    /\ external_issues = <<>>
    /\ pc = "validate"

Validate ==
    /\ pc = "validate"
    /\ LET v == validate_external_bookings(external_df)
       IN  /\ external_all' = v.external_df
           /\ external_issues' = v.external_issues
    /\ external_df' = caller_frame_after_validate(external_df)
    /\ pc' = "done"
    /\ UNCHANGED <<members_df, payments_df, recon_vars, out_vars, i, run_vars>>

NextExt == Validate

SpecExt == InitExt /\ [][NextExt]_vars

---------------------------------------------------------------------------
(* generate_summary (lines 185-230).  The report text is the record of the *)
(* values its f-string formats, Generated being the formatted clock.       *)

RECURSIVE sum_column(_, _, _)
\* Series.sum() of the column col of a table, from the row k on
sum_column(table, col, k) ==
    IF k > Len(table) THEN 0
    ELSE table[k][col] + sum_column(table, col, k + 1)

\* lines 188-190: len(selected_players[selected_players['PaidStatus'] == s])
status_count(sel, status) ==
    Cardinality({m \in 1..Len(sel) : sel[m].PaidStatus = status})

\* line 192 as line 212 prints it: a percentage to one decimal, in tenths
mismatch_rate(underpaid_count, unpaid_count, total_selected) ==
    IF total_selected > 0
    THEN (2000 * (underpaid_count + unpaid_count) + total_selected)
             \div (2 * total_selected)
    ELSE 0

generate_summary(sel, pns, unmatched, ext_all, ext_issues, clock) ==
    LET total_selected   == Len(sel)
        paid_count       == status_count(sel, "Paid")
        underpaid_count  == status_count(sel, "Underpaid")
        unpaid_count     == status_count(sel, "Unpaid")
        membership_expected  == total_selected * ANNUAL_FEE
        membership_collected == sum_column(sel, "PaidAmount", 1)
        external_expected    == sum_column(ext_all, "Expected", 1)
        external_collected   == sum_column(ext_all, "AmountPaid", 1)
    IN  [Generated |-> clock,
         total_selected |-> total_selected,
         paid_count |-> paid_count,
         underpaid_count |-> underpaid_count,
         unpaid_count |-> unpaid_count,
         mismatch_rate |->
             mismatch_rate(underpaid_count, unpaid_count, total_selected),
         membership_expected |-> membership_expected,
         membership_collected |-> membership_collected,
         membership_difference |-> membership_collected - membership_expected,
         total_bookings |-> Len(ext_all),
         external_expected |-> external_expected,
         external_collected |-> external_collected,
         external_difference |-> external_collected - external_expected,
         external_issues_count |-> Len(ext_issues),
         non_selected_payments_count |-> Len(pns),
         unmatched_payments_count |-> Len(unmatched)]

---------------------------------------------------------------------------
(* process_data (lines 37-51) and the handler of the Run Reconciliation    *)
(* button (lines 244-275).                                                 *)

\* what can be wrong with the uploaded files
Defects ==
    {"none", "unparseable", "no_FullName", "no_IsSelectedOfficialTeam",
     "no_Amount", "no_Hours"}

\* lines 40-51: read_csv and the FullName column are all the try covers
process_data_fails(d) == d \in {"unparseable", "no_FullName"}

\* lines 45-47: the NormalizedName column
with_normalized(table) ==
    [k \in 1..Len(table) |->
        [c \in DOMAIN table[k] \cup {"NormalizedName"} |->
            IF c = "NormalizedName" THEN normalize_name(table[k].FullName)
            ELSE table[k][c]]]

\* the steps of lines 254-256 a run completes before a KeyError ends it, as
\* <<raised, steps>>, from the values r that reconcile_memberships returns
\* on the tables with their columns.  The steps: lines 56-67, each iteration
\* of the loops of lines 70 and 92, lines 131-168, and
\* validate_external_bookings.  Without IsSelectedOfficialTeam line 56
\* raises; without Amount the first credit (line 80, or else line 113)
\* raises, and no line raises when no payment is credited; without Hours
\* line 173 raises.
key_error(r, d) ==
    LET rps    == r.resolved_payments
        n      == Len(rps)
        by_id  == {k \in 1..n : rps[k].MatchType = "StudentID"}
        by_name == {k \in 1..n : rps[k].MatchType = "FuzzyName"}
    IN  IF d = "no_IsSelectedOfficialTeam" THEN <<TRUE, 0>>
        ELSE IF d = "no_Amount" /\ by_id # {} THEN <<TRUE, first_index(by_id)>>
        ELSE IF d = "no_Amount" /\ by_name # {}
             THEN <<TRUE, n + first_index(by_name)>>
        ELSE IF d = "no_Hours" THEN <<TRUE, 2 * n + 2>>
        ELSE <<FALSE, 2 * n + 3>>

\* lines 254-271: the entries a completed run writes to st.session_state,
\* r being the values of line 254
run_results(r, bookings, clock) ==
    LET v == validate_external_bookings(bookings)
    IN  [selected_players |-> r.selected_players,
         fuzzy_suggestions |-> r.fuzzy_suggestions,
         paid_not_selected |-> r.paid_not_selected,
         unmatched_payments |-> r.unmatched_payments,
         resolved_payments |-> r.resolved_payments,
         external_df |-> v.external_df,
         external_issues |-> v.external_issues,
         summary |-> generate_summary(r.selected_players, r.paid_not_selected,
                                      r.unmatched_payments, v.external_df,
                                      v.external_issues, clock),
         results_generated |-> TRUE]

\* lines 254-271 on the tables of line 248, r being the values of line 254
press_values(members, payments, bookings, r, d, clock) ==
    [members_df |-> members, payments_df |-> payments,
     external_df |-> bookings,
     raised |-> key_error(r, d)[1], steps |-> key_error(r, d)[2],
     results |-> run_results(r, bookings, clock)]

press_tables(members, payments, bookings, d, clock) ==
    press_values(members, payments, bookings,
                 reconcile_memberships(members, payments), d, clock)

\* what one press of the button does (lines 244-273) on the uploaded files:
\* the tables of line 248, whether a KeyError ends the run and after how
\* many steps, and the entries lines 263-271 store when none does
press(files, d, clock) ==
    press_tables(with_normalized(files.members),
                 with_normalized(files.payments),
                 with_normalized(files.external), d, clock)

RawMember(id, name, sel) ==
    [StudentID |-> id, FullName |-> name, IsSelectedOfficialTeam |-> sel]

RawPayment(id, name, amount) ==
    [StudentID |-> id, FullName |-> name, Amount |-> amount]

RawBooking(id, name, hours, paid) ==
    [BookingID |-> id, FullName |-> name, Hours |-> hours, AmountPaid |-> paid]

\* the rows of the files of the handler's specifications
FileMemberRows ==
    {RawMember("S1", JonTan, "Yes"), RawMember("S1", JonTan, "No"),
     RawMember("S2", NaN, "Yes")}

FilePaymentRows ==
    {RawPayment("S1", JonTanLoud, 40), RawPayment(NaNId, JohnTann, 80),
     RawPayment(NaNId, Blank, 80), RawPayment("S2", JonTam, 40)}

FileBookingRows ==
    {RawBooking("B1", JonTan, 3, 1000), RawBooking("B2", JonTan, 3, 1500)}

Files ==
    [members : Tables(FileMemberRows, MaxRunRows),
     payments : Tables(FilePaymentRows, MaxRunRows),
     external : Tables(FileBookingRows, MaxRunRows)]

InitHandler ==
    /\ uploaded \in Files
    /\ members_df = <<>>
    /\ payments_df = <<>>
    /\ external_df = <<>>
    /\ external_all = <<>>
    /\ external_issues = <<>>
    /\ ReconIdle
    /\ pc = "idle"
    /\ now = 0
    /\ session_state = [results_generated |-> FALSE]
    /\ first_run = [results_generated |-> FALSE]
    /\ runs = 0
    /\ progress = 0

handler_unchanged ==
    UNCHANGED <<recon_vars, out_vars, i, external_all, external_issues,
                defect, uploaded>>

\* lines 248-251: process_data returns an error, st.error shows it
RunError ==
    /\ pc = "idle"
    /\ runs < MaxRuns
    /\ process_data_fails(defect)
    /\ pc' = "error"
    /\ progress' = 0
    /\ UNCHANGED <<members_df, payments_df, external_df, now, session_state,
                   first_run, runs>>
    /\ handler_unchanged

\* the run p ends at a KeyError: nothing is stored
Raise(p) ==
    /\ p.raised
    /\ progress' = p.steps
    /\ members_df' = p.members_df
    /\ payments_df' = p.payments_df
    /\ external_df' = p.external_df

\* the run p completes: lines 263-271
Store(p) ==
    /\ ~p.raised
    /\ progress' = p.steps
    /\ session_state' = p.results
    /\ members_df' = p.members_df
    /\ payments_df' = p.payments_df
    /\ external_df' = caller_frame_after_validate(p.external_df)

\* lines 254-256: a KeyError leaves the handler before line 263
RunRaised ==
    /\ pc = "idle"
    /\ runs < MaxRuns
    /\ ~process_data_fails(defect)
    /\ Raise(press(uploaded, defect, now))
    /\ pc' = "raised"
    /\ UNCHANGED <<now, session_state, first_run, runs>>
    /\ handler_unchanged

\* lines 248-273: the run completes and stores its results
RunStored ==
    /\ pc = "idle"
    /\ runs < MaxRuns
    /\ ~process_data_fails(defect)
    /\ Store(press(uploaded, defect, now))
    /\ first_run' = IF runs = 0 THEN session_state' ELSE first_run
    /\ runs' = runs + 1
    /\ pc' = "idle"
    /\ UNCHANGED now
    /\ handler_unchanged

\* time passes between two clicks
Tick ==
    /\ pc = "idle"
    /\ now < MaxRuns
    /\ now' = now + 1
    /\ UNCHANGED <<members_df, payments_df, external_df, session_state,
                   first_run, runs, progress, pc>>
    /\ handler_unchanged

(* Specification SpecRun: the button pressed up to MaxRuns times on the    *)
(* same well-formed files, the clock advancing in between.                 *)

InitRun == InitHandler /\ defect = "none"

NextRun == RunStored \/ Tick

SpecRun == InitRun /\ [][NextRun]_vars

(* Specification SpecErr: the button pressed on files that may be          *)
(* defective.                                                              *)

InitErr == InitHandler /\ defect \in Defects

NextErr == RunError \/ RunRaised \/ RunStored

SpecErr == InitErr /\ [][NextErr]_vars

---------------------------------------------------------------------------
(* The properties.  They are stated on the tables and on the returned      *)
(* values alone.                                                           *)

Payments == 1..Len(payments_df)

Selected == 1..Len(selected_players)

Done == pc = "done"

Disposition(k) == resolved_payments[k].MatchType

MatchedToSelected(k) == Disposition(k) \in {"StudentID", "FuzzyName"}

\* the payment k is a row of the returned paid_not_selected list
InPaidNotSelected(k) ==
    \E n \in 1..Len(paid_not_selected) : paid_not_selected[n] = payments_df[k]

\* the payment k is a row of the returned unmatched_payments list
InUnmatched(k) ==
    \E n \in 1..Len(unmatched_payments) :
        unmatched_payments[n] = resolved_payments[k]

RosterIds == {members_df[m].StudentID : m \in 1..Len(members_df)}

RosterNames == {members_df[m].NormalizedName : m \in 1..Len(members_df)}

IdInRoster(k) ==
    /\ payments_df[k].StudentID # NaNId
    /\ payments_df[k].StudentID \in RosterIds

NameInRoster(k) == payments_df[k].NormalizedName \in RosterNames

\* the selected rows whose StudentID is the payment's
IdMatches(k) ==
    IF payments_df[k].StudentID = NaNId THEN {}
    ELSE {m \in Selected :
              selected_players[m].StudentID = payments_df[k].StudentID}

IsFirstIdMatch(k, m) ==
    m \in IdMatches(k) /\ \A n \in IdMatches(k) : m <= n

RECURSIVE SumAmounts(_, _)
\* the sum of Amount over the payments k.. for which keep[k] holds
SumAmounts(keep, k) ==
    IF k > Len(payments_df) THEN 0
    ELSE (IF keep[k] THEN payments_df[k].Amount ELSE 0)
         + SumAmounts(keep, k + 1)

RECURSIVE SumPaid(_)
\* the sum of PaidAmount over the selected members m..
SumPaid(m) ==
    IF m > Len(selected_players) THEN 0
    ELSE selected_players[m].PaidAmount + SumPaid(m + 1)

\* C1 (as claimed): after reconcile_memberships returns, every payment is in
\* exactly one of: matched to a selected member, paid_not_selected,
\* unmatched_payments.
PartitionOfPayments ==
    Done =>
        \A k \in Payments :
            \/ MatchedToSelected(k) /\ ~InPaidNotSelected(k) /\ ~InUnmatched(k)
            \/ ~MatchedToSelected(k) /\ InPaidNotSelected(k) /\ ~InUnmatched(k)
            \/ ~MatchedToSelected(k) /\ ~InPaidNotSelected(k) /\ InUnmatched(k)

\* C2: after reconcile_memberships returns, the PaidAmounts of the selected
\* members add up to the Amounts of the payments whose disposition is
\* StudentID or FuzzyName, and those payments are the credited ones: no
\* payment is credited twice or left out of the sum.
Conservation ==
    Done =>
        /\ SumPaid(1) = SumAmounts([k \in Payments |-> MatchedToSelected(k)], 1)
        /\ matched_payment_indices = {k \in Payments : MatchedToSelected(k)}

\* a run with an identifier match, a name match and a payment left over
ConservationWitness ==
    /\ Done
    /\ \E k \in Payments : Disposition(k) = "StudentID"
    /\ \E k \in Payments : Disposition(k) = "FuzzyName"
    /\ SumPaid(1) = ANNUAL_FEE

\* C3 (as claimed): a payment is in paid_not_selected exactly when it was
\* not matched to a selected member and its StudentID or its normalized name
\* is in the full roster.
PaidNotSelectedAreRosterMembers ==
    Done =>
        \A k \in Payments :
            InPaidNotSelected(k) <=>
                (~MatchedToSelected(k) /\ (IdInRoster(k) \/ NameInRoster(k)))

\* C4: the identifier pass is over all payments before the name pass
\* starts; a payment whose StudentID is a selected member's ends as
\* StudentID, resolved to that identifier and credited to the first such
\* member; and the name pass changes nothing when it reaches such a payment.
TwoPassPrecedence ==
    /\ [](pc # "id" =>
            /\ Len(resolved_payments) = Len(payments_df)
            /\ \A k \in Payments :
                   IdMatches(k) # {} =>
                       /\ k \in matched_payment_indices
                       /\ Disposition(k) = "StudentID"
                       /\ resolved_payments[k].ResolvedStudentID
                              = payments_df[k].StudentID
            /\ \A m \in Selected :
                   selected_players[m].PaidAmount >=
                       SumAmounts([k \in Payments |-> IsFirstIdMatch(k, m)], 1))
    /\ [][(pc = "fuzzy" /\ i \in Payments /\ IdMatches(i) # {}) =>
              UNCHANGED recon_vars]_vars

\* a payment with the identifier of one selected member and the name of
\* another: the first is credited, the second is not
TwoPassPrecedenceWitness ==
    /\ Done
    /\ \E k \in Payments : \E m, n \in Selected :
           /\ IsFirstIdMatch(k, m)
           /\ n \notin IdMatches(k)
           /\ selected_players[n].NormalizedName = payments_df[k].NormalizedName
           /\ selected_players[m].PaidAmount = payments_df[k].Amount
           /\ selected_players[n].PaidAmount = 0

\* C5: in every state of a run each selected member's Outstanding is
\* max(0, ANNUAL_FEE - PaidAmount), which is not negative, and no step
\* lowers a PaidAmount.
OutstandingFloor ==
    /\ [](\A m \in Selected :
              /\ selected_players[m].Outstanding >= 0
              /\ selected_players[m].Outstanding =
                     (IF selected_players[m].PaidAmount >= ANNUAL_FEE THEN 0
                      ELSE ANNUAL_FEE - selected_players[m].PaidAmount))
    /\ [][\A m \in Selected :
              selected_players'[m].PaidAmount >= selected_players[m].PaidAmount]_vars

\* a member paid beyond the fee by a credit of the name pass, which is
\* still running
OutstandingFloorWitness ==
    /\ pc = "fuzzy"
    /\ i \in Payments
    /\ \E k \in Payments : Disposition(k) = "FuzzyName"
    /\ \E m \in Selected :
           /\ selected_players[m].PaidAmount > ANNUAL_FEE
           /\ selected_players[m].Outstanding = 0

\* C6: in the returned table every selected member's PaidStatus is the one
\* its final PaidAmount decides (Paid from the fee on, Underpaid between 0
\* and the fee, Unpaid at 0), and the three counts of the summary add up to
\* the number of selected members.
StatusConsistency ==
    Done =>
        /\ \A m \in Selected :
               LET paid   == selected_players[m].PaidAmount
                   status == selected_players[m].PaidStatus
               IN  /\ paid >= ANNUAL_FEE => status = "Paid"
                   /\ (0 < paid /\ paid < ANNUAL_FEE) => status = "Underpaid"
                   /\ paid = 0 => status = "Unpaid"
                   /\ status \in {"Paid", "Underpaid", "Unpaid"}
        /\ status_count(selected_players, "Paid")
               + status_count(selected_players, "Underpaid")
               + status_count(selected_players, "Unpaid")
           = Len(selected_players)

\* a member at exactly the fee next to one who paid nothing
StatusConsistencyWitness ==
    /\ Done
    /\ \E m, n \in Selected :
           /\ selected_players[m].PaidAmount = ANNUAL_FEE
           /\ selected_players[m].PaidStatus = "Paid"
           /\ selected_players[n].PaidAmount = 0
           /\ selected_players[n].PaidStatus = "Unpaid"

\* C9 (as claimed): a payment whose normalized name is empty is never
\* matched by name: its disposition is not FuzzyName, no suggestion carries
\* its name, and the third loop counts it as a roster member's only for its
\* StudentID.
BlankNameNeverMatched ==
    \A k \in Payments :
        payments_df[k].NormalizedName = <<>> =>
            /\ k <= Len(resolved_payments) => Disposition(k) # "FuzzyName"
            /\ \A n \in 1..Len(fuzzy_suggestions) :
                   fuzzy_suggestions[n].EnteredName # payments_df[k].FullName
            /\ (Done /\ payment_matched[k] = "True") => IdInRoster(k)

\* the results a run stored, without the Generated line of the summary
WithoutGenerated(results) ==
    [results EXCEPT !.summary =
        [f \in DOMAIN results.summary \ {"Generated"} |-> results.summary[f]]]

\* the tables a run was given are, after it, what process_data made of the
\* files
TablesUntouched ==
    /\ members_df = with_normalized(uploaded.members)
    /\ payments_df = with_normalized(uploaded.payments)
    /\ external_df = with_normalized(uploaded.external)

InputFailureAborts ==
    defect # "none" =>
        /\ progress = 0
        /\ session_state = [results_generated |-> FALSE]

\* C10: the annotated set is the bookings with their identity fields and, of
\* each, Expected = Hours * 5, Underpaid exactly when AmountPaid is under
\* Expected - 0.01, MissingPayment exactly when AmountPaid <= 0; the issue
\* subset is the annotated rows with one of the flags, in order.
BookingValidation ==
    Done =>
        /\ Len(external_all) = Len(external_df)
        /\ \A k \in 1..Len(external_df) :
               LET b == external_df[k]
                   a == external_all[k]
               IN  /\ a.BookingID = b.BookingID
                   /\ a.FullName = b.FullName
                   /\ a.Hours = b.Hours
                   /\ a.AmountPaid = b.AmountPaid
                   /\ a.Expected = b.Hours * 500
                   /\ a.Underpaid <=> (b.AmountPaid + 1 < b.Hours * 500)
                   /\ a.MissingPayment <=> (b.AmountPaid <= 0)
                   /\ (a.Underpaid \/ a.MissingPayment) <=>
                          \E n \in 1..Len(external_issues) :
                              external_issues[n] = a
        /\ \A n \in 1..Len(external_issues) :
               \E k \in 1..Len(external_all) : external_issues[n] = external_all[k]
        /\ Len(external_issues) <= Len(external_all)

\* a booking one penny under its charge, which is no issue, next to an
\* underpaid one
BookingValidationWitness ==
    /\ Done
    /\ Len(external_issues) = 1
    /\ \E k \in 1..Len(external_all) :
           /\ external_all[k].Expected = 1500
           /\ external_all[k].AmountPaid = 1499
           /\ ~external_all[k].Underpaid
    /\ \E k \in 1..Len(external_all) :
           /\ external_all[k].AmountPaid = 1000
           /\ external_all[k].Underpaid
           /\ ~external_all[k].MissingPayment

===========================================================================
